---- MODULE Spec2Model ----
(***************************************************************************)
(* Model of the vscode-mcp command channel.                                *)
(*                                                                         *)
(*   server side    MCPConnectionHandler (server/src/connectionHandler.ts) *)
(*                  and the tool calls of VSCodeServer (server/src/index.ts)*)
(*   companion side SocketServer, CommandHandler and DiffManager of the    *)
(*                  extension                                              *)
(*                                                                         *)
(* Both processes are single-threaded event loops.  One action of the      *)
(* model is one callback of the event loop together with the promise       *)
(* continuations (microtasks) it releases; every await on I/O is a place   *)
(* where other actions interleave.  Timers carry their delay but fire at   *)
(* any moment: time is abstracted.                                         *)
(***************************************************************************)
EXTENDS Integers, Sequences, FiniteSets, TLC

\* ------------------------------------------------------------------ bounds
MaxSockets == 2
MaxTools == 2
MaxPeerMsgs == 2
MaxBatch == 2
MaxClicks == 2
MaxDisconnects == 1
MaxRecoverySockets == 3
MaxRecoveryTools == 1
MaxRecoveryMsgs == 1
MaxPings == 2
MaxDepth == 3
MaxEntries == 2
MaxPort == 2
MaxCompanions == 2
MaxTasks == 2

MaxLifecycleTasks == 3
MaxCalls == 3

\* ------------------------------------------------------- program constants
DefaultRequestTimeout == 10000
PingTimeout == 5000
ReconnectAttempts == 5
ReconnectDelay == 1000
MaxReconnectDelay == 30000

VARIABLES
    \* MCPConnectionHandler fields
    connected, socket, reconnecting, reconnectTimer, reconnectAttempt,
    messageQueue, pendingRequests, requestCounter,
    \* timers armed by sendRequest: id -> delay in ms
    requestTimers,
    \* every net.Socket the handler created, and the two byte streams of each
    sockets, up, down,
    \* the tool calls of VSCodeServer and the file apply_file_changes edits
    tools, fileContent,
    \* the listeners of 'connectionClosedError' that wait to start recovery
    recoveries,
    \* the peer: whether it listens, and how many messages it may still write
    peerUp, peerBudget,
    \* how many sockets and tool calls a behaviour explores
    limits,
    \* history: every request sent, every call of a sendRequest promise's
    \* resolve or reject in the order made, the ids of responses that matched no
    \* pending request, the requests whose answer from the Companion was read
    \* while they were pending and matched none, the last reconnect scheduled,
    \* the events emitted, the number of calls of disconnect()
    reqs, settleLog, late, answered, lastSched, emitted, disconnects,
    \* the Companion: the invocations of CommandHandler.handleCommand, the
    \* fields of DiffManager, the invocations of DiffManager.handleChoice that
    \* passed its guard, the accept/reject commands the user ran, the settings
    cmds, resolveChoice, originalFilePath, buttons, choices, clicks,
    diffingEnabled, fileOpeningEnabled, shellCommandsEnabled,
    \* the Port Resolver: the registry file as the entries of the parsed
    \* object in order, the working directory of the server, the argument and
    \* the result of the last call of findExtensionPort
    registry, cwd, targetProjectPath, port,
    \* the RegistryManagers: the two registry files, and the calls of
    \* updateRegistry, updateRegistryForWorkspaceChange and removeFromRegistry
    files, tasks,
    \* VSCodeServer: the connections map, the channels constructed, the calls
    \* of getConnection
    connections, channels, calls

serverVars == <<connected, socket, reconnecting, reconnectTimer, reconnectAttempt,
                messageQueue, pendingRequests, requestCounter, requestTimers,
                sockets, up, down, tools, fileContent, recoveries,
                reqs, settleLog, late, answered, lastSched, emitted, disconnects>>

companionVars == <<cmds, resolveChoice, originalFilePath, buttons, choices, clicks,
                   diffingEnabled, fileOpeningEnabled, shellCommandsEnabled>>

resolverVars == <<registry, cwd, targetProjectPath, port>>

registryVars == <<files, tasks>>

poolVars == <<connections, channels, calls>>

envVars == <<peerUp, peerBudget, limits, companionVars, resolverVars, registryVars, poolVars>>

vars == <<serverVars, peerUp, peerBudget, limits, companionVars, resolverVars, registryVars, poolVars>>

\* --------------------------------------------------------------- helpers
Min(a, b) == IF a < b THEN a ELSE b

None == <<>>
Some(x) == <<x>>

NoSocket == 0

\* The value of `delay` when scheduleReconnect is called without argument.
Undefined == -1

\* A JSON text on the wire, by the fields the code reads: id (0: none), error
\* ("none", "str": a string, "closed": an object with code -32000, "other": an
\* object with another code), success and accepted ("absent", "true",
\* "false"), alive ("absent", "true"); ok is whether the text parses.  re is history: the request the
\* writer answered.
NoMsg ==
    [id |-> 0, error |-> "none", success |-> "absent", accepted |-> "absent",
     alive |-> "absent", ok |-> FALSE, re |-> 0]

\* The server's state as one record, so that a handler is a function on it.
World ==
    [connected |-> connected, socket |-> socket, reconnecting |-> reconnecting,
     reconnectTimer |-> reconnectTimer, reconnectAttempt |-> reconnectAttempt,
     messageQueue |-> messageQueue, pendingRequests |-> pendingRequests,
     requestCounter |-> requestCounter, requestTimers |-> requestTimers,
     sockets |-> sockets, up |-> up, down |-> down, tools |-> tools,
     fileContent |-> fileContent, recoveries |-> recoveries,
     reqs |-> reqs, settleLog |-> settleLog, late |-> late, answered |-> answered,
     lastSched |-> lastSched, emitted |-> emitted, disconnects |-> disconnects]

Commit(w) ==
    /\ connected' = w.connected
    /\ socket' = w.socket
    /\ reconnecting' = w.reconnecting
    /\ reconnectTimer' = w.reconnectTimer
    /\ reconnectAttempt' = w.reconnectAttempt
    /\ messageQueue' = w.messageQueue
    /\ pendingRequests' = w.pendingRequests
    /\ requestCounter' = w.requestCounter
    /\ requestTimers' = w.requestTimers
    /\ sockets' = w.sockets
    /\ up' = w.up
    /\ down' = w.down
    /\ tools' = w.tools
    /\ fileContent' = w.fileContent
    /\ recoveries' = w.recoveries
    /\ reqs' = w.reqs
    /\ settleLog' = w.settleLog
    /\ late' = w.late
    /\ answered' = w.answered
    /\ lastSched' = w.lastSched
    /\ emitted' = w.emitted
    /\ disconnects' = w.disconnects

TrackedEvents == {"reconnectFailed", "connectionClosedError", "parseError"}

Emit(w, event) ==
    IF event \in TrackedEvents THEN [w EXCEPT !.emitted = @ \cup {event}] ELSE w

\* ------------------------------------------------------------ net.Socket
\* A socket the handler created: state is connecting, open, closing (its
\* 'close' event is on its way) or closed; ended once end() was called on it.
\* caller is the code that awaits the connect() promise of this socket,
\* promise that promise, timer the connect-timeout timer of the attempt.
Caller(kind, t) == [kind |-> kind, tool |-> t]

NewSocket(caller) ==
    [state |-> "connecting", ended |-> FALSE, caller |-> caller,
     promise |-> "pending", timer |-> TRUE]

Writable(w, s) ==
    /\ s # NoSocket
    /\ w.sockets[s].state \in {"connecting", "open"}
    /\ ~w.sockets[s].ended

\* socket.write(data): the bytes reach the stream of a live socket.
SocketWrite(w, s, data) ==
    IF Writable(w, s) THEN [w EXCEPT !.up[s] = Append(@, data)] ELSE w

\* socket.destroy()
SocketDestroy(w, s) ==
    IF s # NoSocket /\ w.sockets[s].state \in {"connecting", "open"}
    THEN [w EXCEPT !.sockets[s].state = "closing"]
    ELSE w

\* socket.end()
SocketEnd(w, s) == [w EXCEPT !.sockets[s].ended = TRUE]

\* ------------------------------------------------- VSCodeServer tool calls
\* A tool call: pc is connecting (in getConnection), ready (the channel is
\* connected, the call is about to send), awaiting (in sendRequest) or done;
\* req is the id of its request, out its result, wrote whether it wrote the
\* target file.  The target file holds 0, its first content, or t, the
\* content tool call t proposed.
NewTool(type) ==
    [type |-> type, pc |-> "connecting", req |-> 0, out |-> "none", wrote |-> FALSE,
     text |-> "none"]

ShouldApplyAlways(response) == TRUE

\* apply_file_changes writes the proposed content when the diff was accepted.
ShouldApply(response) == response.accepted = "true"

\* The message of the Error a request is rejected with: 'Request timed out',
\* 'Connection closed', or for an error response `response.error.message ||
\* 'Unknown error'`, where the message property of a string is undefined.
ErrorText(outcome) ==
    IF outcome.why # "response" THEN outcome.why
    ELSE IF outcome.msg.error \in {"other", "closed"} THEN "message"
    ELSE "unknown"

\* The code after `await connection.sendRequest(...)` of a tool call; text is
\* what the `Error ...: ${error}` of its result holds.
ToolContinue(w, t, outcome) ==
    LET type == w.tools[t].type
        applied == /\ type = "showDiff"
                   /\ outcome.how = "resolve"
                   /\ ShouldApply(outcome.msg)
        out == IF outcome.how = "reject" THEN "error"
               ELSE IF type # "showDiff" THEN "ok"
               ELSE IF applied THEN "accepted" ELSE "rejected"
    IN  [w EXCEPT !.tools[t].pc = "done",
                  !.tools[t].out = out,
                  !.tools[t].text = IF outcome.how = "reject"
                                    THEN ErrorText(outcome) ELSE "none",
                  !.tools[t].wrote = applied,
                  !.fileContent = IF applied THEN t ELSE @]

\* ------------------------------------------------- MCPConnectionHandler
\* A sendRequest promise is settled by resolve or reject; only the first
\* call has an effect on the promise, and releases the awaiting code.
Settlements(log, id) ==
    LET Mine(e) == e.id = id IN SelectSeq(log, Mine)

Outcome(id, how, why, msg) == [id |-> id, how |-> how, why |-> why, msg |-> msg]

Settle(w, outcome) ==
    LET first == Settlements(w.settleLog, outcome.id) = <<>>
        w1 == [w EXCEPT !.settleLog = Append(@, outcome)]
        owner == w.reqs[outcome.id].owner
    IN  IF first /\ owner # 0 THEN ToolContinue(w1, owner, outcome) ELSE w1

BackoffDelay(attempt) ==
    Min(ReconnectDelay * 2^(attempt - 1), MaxReconnectDelay)

ReconnectBlocked(w) == w.reconnecting \/ w.reconnectTimer # None

scheduleReconnect(w, delay) ==
    IF ReconnectBlocked(w) THEN w
    ELSE LET attempt == w.reconnectAttempt + 1
             d == IF delay # Undefined THEN delay ELSE BackoffDelay(attempt)
         IN  [w EXCEPT !.reconnecting = TRUE,
                       !.reconnectAttempt = attempt,
                       !.reconnectTimer = Some(d),
                       !.lastSched = Some([attempt |-> attempt, delay |-> d])]

send(w, data) ==
    IF ~w.connected \/ w.socket = NoSocket
    THEN LET w1 == [w EXCEPT !.messageQueue = Append(@, data)]
         IN  IF ~w1.connected /\ ~w1.reconnecting
             THEN scheduleReconnect(w1, 0)
             ELSE w1
    ELSE SocketWrite(w, w.socket, data)

RECURSIVE WriteAll(_, _, _)
WriteAll(w, s, queue) ==
    IF queue = <<>> THEN w
    ELSE WriteAll(SocketWrite(w, s, Head(queue)), s, Tail(queue))

processQueue(w) ==
    IF Len(w.messageQueue) > 0 /\ w.connected /\ w.socket # NoSocket
    THEN [WriteAll(w, w.socket, w.messageQueue) EXCEPT !.messageQueue = <<>>]
    ELSE w

sendRequest(w, type, owner, timeout) ==
    LET id == w.requestCounter + 1
        w1 == [w EXCEPT !.requestCounter = id,
                        !.reqs = Append(@, [type |-> type, owner |-> owner,
                                            timeout |-> timeout]),
                        !.requestTimers = @ \cup {id},
                        !.pendingRequests = @ \cup {id}]
    IN  send(w1, [id |-> id, type |-> type])

ping(w) == sendRequest(w, "ping", 0, PingTimeout)

\* What ping returns once its request is settled: `response && response.alive
\* === true`, and false from the catch.
PingReturn(outcome) == outcome.how = "resolve" /\ outcome.msg.alive = "true"

\* What follows `await this.connect()` in the code that called it.
OnConnectSettled(w, caller, ok) ==
    CASE caller.kind = "reconnect" ->
            IF ok THEN Emit([w EXCEPT !.reconnecting = FALSE], "reconnected")
            ELSE scheduleReconnect(w, Undefined)
      [] caller.kind = "force" ->
            ping(IF ok THEN w ELSE scheduleReconnect(w, 0))
      [] OTHER ->
            IF ok THEN [w EXCEPT !.tools[caller.tool].pc = "ready"]
            ELSE [w EXCEPT !.tools[caller.tool].pc = "done",
                           !.tools[caller.tool].out = "error",
                           !.tools[caller.tool].text = "connect"]

ResolveConnect(w, s) ==
    IF w.sockets[s].promise = "pending"
    THEN OnConnectSettled([w EXCEPT !.sockets[s].promise = "resolved"],
                          w.sockets[s].caller, TRUE)
    ELSE w

RejectConnect(w, s) ==
    IF w.sockets[s].promise = "pending"
    THEN OnConnectSettled([w EXCEPT !.sockets[s].promise = "rejected"],
                          w.sockets[s].caller, FALSE)
    ELSE w

connect(w, caller) ==
    IF w.connected THEN OnConnectSettled(w, caller, TRUE)
    ELSE [w EXCEPT !.sockets = Append(@, NewSocket(caller)),
                   !.up = Append(@, <<>>),
                   !.down = Append(@, <<>>),
                   !.socket = Len(w.sockets) + 1]

\* socket.on('connect') and socket.once('connect')
OnConnect(w, s) ==
    LET w1 == [w EXCEPT !.sockets[s].state = "open",
                        !.connected = TRUE,
                        !.reconnectAttempt = 0]
        w2 == processQueue(Emit(w1, "connected"))
        w3 == [w2 EXCEPT !.sockets[s].timer = FALSE]
    IN  ResolveConnect(w3, s)

\* socket.on('close')
OnClose(w, s) ==
    LET w1 == [w EXCEPT !.sockets[s].state = "closed",
                        !.connected = FALSE,
                        !.socket = NoSocket]
        w2 == Emit(w1, "disconnected")
    IN  IF ~w2.reconnecting THEN scheduleReconnect(w2, Undefined) ELSE w2

\* socket.on('error') of a refused connection, then its 'close', then the
\* code that awaited the rejected promise.
OnRefused(w, s) ==
    LET rejects == ~w.connected /\ w.sockets[s].promise = "pending"
        w1 == Emit(w, "error")
        w2 == IF rejects THEN [w1 EXCEPT !.sockets[s].promise = "rejected"] ELSE w1
        w3 == OnClose(w2, s)
    IN  IF rejects THEN OnConnectSettled(w3, w.sockets[s].caller, FALSE) ELSE w3

\* the connect-timeout timer of the attempt that created socket s
OnConnectTimeout(w, s) ==
    LET w1 == [w EXCEPT !.sockets[s].timer = FALSE]
    IN  IF ~w1.connected
        THEN RejectConnect(SocketDestroy(w1, w1.socket), s)
        ELSE w1

RejectNone(w, ids) == w

RECURSIVE RejectAll(_, _)
RejectAll(w, ids) ==
    IF ids = {} THEN w
    ELSE LET id == CHOOSE i \in ids : \A j \in ids : i <= j
             w1 == [w EXCEPT !.requestTimers = @ \ {id}]
             w2 == Settle(w1, Outcome(id, "reject", "closed", NoMsg))
             w3 == [w2 EXCEPT !.pendingRequests = @ \ {id}]
         IN  RejectAll(w3, ids \ {id})

disconnect(w) ==
    LET w1 == [w EXCEPT !.reconnectTimer = None, !.reconnecting = FALSE,
                        !.disconnects = @ + 1]
        w2 == IF w1.socket # NoSocket
              THEN [SocketEnd(w1, w1.socket) EXCEPT !.socket = NoSocket]
              ELSE w1
        w3 == [w2 EXCEPT !.connected = FALSE]
    IN  RejectAll(w3, w3.pendingRequests)

MatchOldest(w, response) ==
    IF response.id # 0 /\ w.pendingRequests # {}
    THEN CHOOSE i \in w.pendingRequests : \A j \in w.pendingRequests : i <= j
    ELSE 0

\* The pending request a parsed response belongs to (0: none).
MatchRequest(w, response) ==
    IF response.id # 0 /\ response.id \in w.pendingRequests THEN response.id ELSE 0

PendingKept(pending, id) == pending

PendingAfterResponse(pending, id) == pending \ {id}

\* One line of a data event.
HandleMessage(w, line) ==
    IF ~line.ok THEN Emit(w, "parseError")
    ELSE LET id == MatchRequest(w, line) IN
         IF id # 0
         THEN LET w1 == [w EXCEPT !.requestTimers = @ \ {id}]
                  w2 == IF line.error = "none"
                        THEN Settle(w1, Outcome(id, "resolve", "response", line))
                        ELSE IF line.error = "closed"
                        THEN Settle([Emit(w1, "connectionClosedError")
                                        EXCEPT !.recoveries = @ + 1],
                                    Outcome(id, "reject", "response", line))
                        ELSE Settle(w1, Outcome(id, "reject", "response", line))
              IN  [w2 EXCEPT !.pendingRequests = PendingAfterResponse(@, id)]
         ELSE [Emit(w, "message") EXCEPT
                  !.late = IF line.id # 0 THEN @ \cup {line.id} ELSE @,
                  !.answered = IF line.re \in w.pendingRequests
                               THEN @ \cup {line.re} ELSE @]

RECURSIVE HandleLinesUntilBad(_, _)
HandleLinesUntilBad(w, lines) ==
    IF lines = <<>> THEN w
    ELSE IF ~Head(lines).ok THEN Emit(w, "parseError")
    ELSE HandleLinesUntilBad(HandleMessage(w, Head(lines)), Tail(lines))

RECURSIVE HandleLines(_, _)
HandleLines(w, lines) ==
    IF lines = <<>> THEN w
    ELSE HandleLines(HandleMessage(w, Head(lines)), Tail(lines))

\* data.toString().split('\n') and JSON.parse of each non-empty piece.  A
\* write is [json, nl]: a JSON text, followed by a newline or not.  Pieces
\* that hold two JSON texts do not parse.
RECURSIVE SplitLines(_, _)
SplitLines(writes, open) ==
    IF writes = <<>> THEN (IF open = 0 THEN <<>> ELSE <<NoMsg>>)
    ELSE LET h == Head(writes)
             piece == IF open = 0 THEN h.json ELSE NoMsg
         IN  IF h.nl THEN <<piece>> \o SplitLines(Tail(writes), 0)
             ELSE IF Len(writes) = 1 THEN <<piece>>
             ELSE SplitLines(Tail(writes), open + 1)

handleData(w, chunk) == HandleLines(w, SplitLines(chunk, 0))

\* the timer sendRequest armed for request id
OnRequestTimeout(w, id) ==
    LET w1 == [w EXCEPT !.requestTimers = @ \ {id}]
    IN  IF id \in w1.pendingRequests
        THEN Settle([w1 EXCEPT !.pendingRequests = @ \ {id}],
                    Outcome(id, "reject", "timeout", NoMsg))
        ELSE w1

\* the timer scheduleReconnect armed
OnReconnectTimer(w) ==
    LET w1 == [w EXCEPT !.reconnectTimer = None]
    IN  IF w1.reconnectAttempt > ReconnectAttempts
        THEN [Emit(w1, "reconnectFailed") EXCEPT !.reconnecting = FALSE]
        ELSE connect(w1, Caller("reconnect", 0))

\* handleConnectionClosedError up to its first await on I/O
forceReconnect(w) ==
    LET w1 == disconnect(w)
        w2 == [w1 EXCEPT !.reconnectAttempt = 0]
    IN  connect(w2, Caller("force", 0))

\* ---------------------------------------------------------------- actions
ToolTypes == {"showDiff", "open"}

SocketBudget(w) == w.connected \/ Len(w.sockets) < limits.sockets

\* A tool call of VSCodeServer up to `await connection.connect()` in
\* getConnection.
ToolStart(type) ==
    /\ Len(tools) < limits.tools
    /\ SocketBudget(World)
    /\ LET t == Len(tools) + 1
           w == [World EXCEPT !.tools = Append(@, NewTool(type))]
       IN  Commit(connect(w, Caller("tool", t)))
    /\ UNCHANGED envVars

\* The tool call goes on after getConnection returned: sendRequest.
ToolSend(t) ==
    /\ t \in 1..Len(tools)
    /\ tools[t].pc = "ready"
    /\ LET w == [World EXCEPT !.tools[t].pc = "awaiting",
                             !.tools[t].req = requestCounter + 1]
       IN  Commit(sendRequest(w, tools[t].type, t, DefaultRequestTimeout))
    /\ UNCHANGED envVars

SocketConnected(s) ==
    /\ s \in 1..Len(sockets)
    /\ sockets[s].state = "connecting"
    /\ peerUp
    /\ Commit(OnConnect(World, s))
    /\ UNCHANGED envVars

SocketRefused(s) ==
    /\ s \in 1..Len(sockets)
    /\ sockets[s].state = "connecting"
    /\ ~peerUp
    /\ Commit(OnRefused(World, s))
    /\ UNCHANGED envVars

ConnectTimeout(s) ==
    /\ s \in 1..Len(sockets)
    /\ sockets[s].timer
    /\ Commit(OnConnectTimeout(World, s))
    /\ UNCHANGED envVars

\* The 'close' event of a socket that was destroyed, that the peer closed, or
\* that was ended and whose peer answered the FIN.
SocketClosed(s) ==
    /\ s \in 1..Len(sockets)
    /\ \/ sockets[s].state = "closing"
       \/ sockets[s].state = "open" /\ sockets[s].ended
    /\ Commit(OnClose(World, s))
    /\ UNCHANGED envVars

\* A 'data' event: the next k writes of the peer arrive as one chunk.
Data(s, k) ==
    /\ s \in 1..Len(sockets)
    /\ sockets[s].state = "open"
    /\ k \in 1..Min(Len(down[s]), MaxBatch)
    /\ LET w == [World EXCEPT !.down[s] = SubSeq(@, k + 1, Len(@))]
       IN  Commit(handleData(w, SubSeq(down[s], 1, k)))
    /\ UNCHANGED envVars

RequestTimeout(id) ==
    /\ id \in requestTimers
    /\ Commit(OnRequestTimeout(World, id))
    /\ UNCHANGED envVars

ReconnectTimerFire ==
    /\ reconnectTimer # None
    /\ reconnectAttempt > ReconnectAttempts \/ SocketBudget(World)
    /\ Commit(OnReconnectTimer(World))
    /\ UNCHANGED envVars

\* index.ts, the listener of 'connectionClosedError', after its log line.
RecoveryStart ==
    /\ recoveries > 0
    /\ Len(sockets) < limits.sockets
    /\ Commit(forceReconnect([World EXCEPT !.recoveries = @ - 1]))
    /\ UNCHANGED envVars

PingRequests == {id \in 1..requestCounter : reqs[id].type = "ping"}

\* The owner of a channel checks its health: connection.ping().
HealthCheck ==
    /\ Len(tools) > 0
    /\ Cardinality(PingRequests) < MaxPings
    /\ Commit(ping(World))
    /\ UNCHANGED envVars

\* DebugSessionManager.dispose: the owner of the channel calls disconnect().
Dispose ==
    /\ disconnects < MaxDisconnects
    /\ Commit(disconnect(World))
    /\ UNCHANGED envVars

\* --------------------------------------------------- a peer that echoes ids
\* Any process that accepts the connection and writes newline-terminated
\* JSON lines: answers to ids the channel issued, lines without id, lines
\* that do not parse.
PeerMessages ==
    [id : 0..requestCounter, error : {"none"}, success : {"true"},
     accepted : {"true", "false"}, alive : {"absent"}, ok : {TRUE}, re : {0}]
    \cup [id : 0..requestCounter, error : {"none"}, success : {"absent"},
          accepted : {"absent"}, alive : {"true"}, ok : {TRUE}, re : {0}]
    \cup [id : 0..requestCounter, error : {"other", "closed"}, success : {"absent"},
          accepted : {"absent"}, alive : {"absent"}, ok : {TRUE}, re : {0}]
    \cup [id : 0..requestCounter, error : {"str"}, success : {"false"},
          accepted : {"absent"}, alive : {"absent"}, ok : {TRUE}, re : {0}]
    \cup {NoMsg}

PeerWrite(s, m) ==
    /\ s \in 1..Len(sockets)
    /\ sockets[s].state = "open"
    /\ peerUp
    /\ peerBudget > 0
    /\ peerBudget' = peerBudget - 1
    /\ down' = [down EXCEPT ![s] = Append(@, [json |-> m, nl |-> TRUE])]
    /\ UNCHANGED <<connected, socket, reconnecting, reconnectTimer, reconnectAttempt,
                   messageQueue, pendingRequests, requestCounter, requestTimers,
                   sockets, up, tools, fileContent, recoveries,
                   reqs, settleLog, late, answered, lastSched, emitted, disconnects,
                   peerUp, limits, companionVars, resolverVars, registryVars, poolVars>>

\* The peer process dies: its open connections close.
PeerCrash ==
    /\ peerUp
    /\ peerUp' = FALSE
    /\ sockets' = [s \in 1..Len(sockets) |->
                      IF sockets[s].state = "open"
                      THEN [sockets[s] EXCEPT !.state = "closing"]
                      ELSE sockets[s]]
    /\ UNCHANGED <<connected, socket, reconnecting, reconnectTimer, reconnectAttempt,
                   messageQueue, pendingRequests, requestCounter, requestTimers,
                   up, down, tools, fileContent, recoveries,
                   reqs, settleLog, late, answered, lastSched, emitted, disconnects,
                   peerBudget, limits, companionVars, resolverVars, registryVars, poolVars>>

PeerRestart ==
    /\ ~peerUp
    /\ peerUp' = TRUE
    /\ UNCHANGED <<serverVars, peerBudget, limits, companionVars, resolverVars, registryVars, poolVars>>

\* ------------------------------------------------------------- Companion
\* The Companion's state that its handlers change, as one record.
Companion ==
    [cmds |-> cmds, resolveChoice |-> resolveChoice,
     originalFilePath |-> originalFilePath, buttons |-> buttons,
     choices |-> choices, down |-> down]

CommitCompanion(x) ==
    /\ cmds' = x.cmds
    /\ resolveChoice' = x.resolveChoice
    /\ originalFilePath' = x.originalFilePath
    /\ buttons' = x.buttons
    /\ choices' = x.choices
    /\ down' = x.down

\* What the Companion's handlers leave alone.
channelRest ==
    <<connected, socket, reconnecting, reconnectTimer, reconnectAttempt,
      messageQueue, pendingRequests, requestCounter, requestTimers, sockets,
      tools, fileContent, recoveries, reqs, settleLog, late, answered,
      lastSched, emitted, disconnects, peerUp, peerBudget, limits,
      diffingEnabled, fileOpeningEnabled, shellCommandsEnabled, resolverVars, registryVars, poolVars>>

\* A response object, by the fields the code sets.
NoResponse == [success |-> "absent", accepted |-> "absent", error |-> "none"]

SuccessResponse == [success |-> "true", accepted |-> "absent", error |-> "none"]

ErrorResponse == [success |-> "false", accepted |-> "absent", error |-> "str"]

\* The response of a disabled feature: error is the '... is disabled in MCP
\* settings' string.
DisabledResponse == [success |-> "false", accepted |-> "absent", error |-> "disabled"]

createDiffResponseFailed(accepted) == ErrorResponse

createDiffResponse(accepted) ==
    [success |-> "true", accepted |-> IF accepted THEN "true" ELSE "false",
     error |-> "none"]

\* JSON.stringify(response): the text holds the fields of the response, and a
\* response object has no id.
Stringify(response, re) ==
    [id |-> 0, error |-> response.error, success |-> response.success,
     accepted |-> response.accepted, alive |-> "absent", ok |-> TRUE, re |-> re]

\* An invocation of handleCommand: pc is diffOpening (in DiffManager.showDiff,
\* awaits vscode.diff), awaitingChoice (awaits the choice promise), opening
\* (in handleOpen, awaits the editor) or done; choice is the choice promise
\* of a showDiff (none, pending, true, false); response is what the
\* invocation passed to socket.write, threw whether its handler threw.
NewCommand(command, s) ==
    [type |-> command.type, re |-> command.id, sock |-> s, pc |-> "done",
     choice |-> "none", response |-> NoResponse, threw |-> FALSE,
     handler |-> FALSE]

\* socket.write(JSON.stringify(response)), the last statement of handleCommand
Respond(x, c, response, threw) ==
    LET s == x.cmds[c].sock
        x1 == [x EXCEPT !.cmds[c].pc = "done",
                        !.cmds[c].response = response,
                        !.cmds[c].threw = threw]
    IN  IF sockets[s].state = "open"
        THEN [x1 EXCEPT !.down[s] =
                 Append(@, [json |-> Stringify(response, x.cmds[c].re), nl |-> FALSE])]
        ELSE x1

\* DiffManager.showDiff up to `await vscode.commands.executeCommand`
showDiff(x, c) ==
    [x EXCEPT !.originalFilePath = c,
              !.buttons = "shown",
              !.resolveChoice = c,
              !.cmds[c].choice = "pending",
              !.cmds[c].pc = "diffOpening"]

FeatureEnabledAlways(type) == FALSE

\* The settings gate of handleCommand: the command is of a disabled feature.
FeatureDisabled(type) ==
    \/ type = "showDiff" /\ ~diffingEnabled
    \/ type = "open" /\ ~fileOpeningEnabled
    \/ type = "executeShellCommand" /\ ~shellCommandsEnabled

\* The response the gate makes without calling a handler.
AutoResponse(type) ==
    IF type = "showDiff" THEN createDiffResponse(TRUE) ELSE DisabledResponse

\* handleCommand up to its first await on the editor or on the child
\* process; handler is whether the handler of the command was called.
handleCommand(x, command, s) ==
    LET c == Len(x.cmds) + 1
        x1 == [x EXCEPT !.cmds = Append(@, NewCommand(command, s))]
        x2 == [x1 EXCEPT !.cmds[c].handler = TRUE]
    IN  CASE FeatureDisabled(command.type) ->
                Respond(x1, c, AutoResponse(command.type), FALSE)
          [] command.type = "showDiff" -> showDiff(x2, c)
          [] command.type = "open" -> [x2 EXCEPT !.cmds[c].pc = "opening"]
          [] command.type = "executeShellCommand" ->
                [x2 EXCEPT !.cmds[c].pc = "executing"]
          [] command.type = "ping" -> Respond(x2, c, SuccessResponse, FALSE)
          [] OTHER -> Respond(x1, c, ErrorResponse, FALSE)

\* The call of the resolve function stored in resolveChoice: the promise takes
\* the first value it is given, and the showDiff that awaits it goes on.
ResolveChoice(x, accepted) ==
    LET c == x.resolveChoice
        value == IF accepted THEN "true" ELSE "false"
    IN  IF x.cmds[c].choice # "pending" THEN x
        ELSE LET x1 == [x EXCEPT !.cmds[c].choice = value]
             IN  IF x.cmds[c].pc = "awaitingChoice"
                 THEN Respond(x1, c, createDiffResponse(accepted), FALSE)
                 ELSE x1

\* DiffManager.handleChoice up to `await closeActiveEditor`.  stale: the
\* promise of the stored resolver was settled before this call.
handleChoice(x, accepted) ==
    IF x.resolveChoice = 0 THEN x
    ELSE LET h == [accepted |-> accepted, pc |-> "closing",
                   stale |-> x.cmds[x.resolveChoice].choice # "pending",
                   closed |-> FALSE, opened |-> FALSE]
             x1 == ResolveChoice(x, accepted)
         IN  [x1 EXCEPT !.buttons = IF @ = "none" THEN @ ELSE "disposed",
                        !.choices = Append(@, h)]

\* ---------------------------------------------------------- Port Resolver
\* A path is the sequence of its characters; path.sep is "/".  The names of
\* path segments: one is a string prefix of the other.
Sep == <<"/">>

Segments == {<<"a">>, <<"a", "b">>}

RECURSIVE Join(_)
Join(names) ==
    IF names = <<>> THEN <<>>
    ELSE names[1] \o (IF Len(names) = 1 THEN <<>> ELSE Sep \o Join(Tail(names)))

\* The relative paths a/b/..., and the absolute ones /a/b/...
RelativePaths == {Join(names) : names \in UNION {[1..n -> Segments] : n \in 1..MaxDepth}}

AbsolutePaths == {Sep \o p : p \in RelativePaths}

\* String.prototype.startsWith
StartsWith(str, prefix) ==
    /\ Len(prefix) <= Len(str)
    /\ SubSeq(str, 1, Len(prefix)) = prefix

\* path.isAbsolute
IsAbsolute(p) == Len(p) > 0 /\ p[1] = "/"

\* path.resolve of a normalised relative path
Resolve(dir, p) == dir \o Sep \o p

AbsolutePath(dir, target) ==
    IF IsAbsolute(target) THEN target ELSE Resolve(dir, target)

ExactMatchNone(entries, absolutePath) == 0

\* registry[absolutePath]: the entry of that key (0: undefined)
ExactMatch(entries, absolutePath) ==
    IF \E i \in 1..Len(entries) : entries[i].key = absolutePath
    THEN CHOOSE i \in 1..Len(entries) : entries[i].key = absolutePath
    ELSE 0

\* The parent/child condition without path.sep
RelatedByPrefix(absolutePath, workspace) ==
    \/ StartsWith(absolutePath, workspace)
    \/ StartsWith(workspace, absolutePath)

\* The condition of the parent/child loop
Related(absolutePath, workspace) ==
    \/ StartsWith(absolutePath, workspace \o Sep)
    \/ StartsWith(workspace, absolutePath \o Sep)

\* VSCodeServer.findExtensionPort; a registry that could not be read gives
\* null like a registry without entries.  null is None.
findExtensionPort(entries, dir, target) ==
    IF target = <<>> THEN None
    ELSE LET absolutePath == AbsolutePath(dir, target)
             exact == ExactMatch(entries, absolutePath)
             related == {i \in 1..Len(entries) : Related(absolutePath, entries[i].key)}
         IN  IF exact # 0 /\ entries[exact].port # 0
             THEN Some(entries[exact].port)
             ELSE IF related # {}
             THEN Some(entries[CHOOSE i \in related : \A j \in related : i <= j].port)
             ELSE IF Len(entries) > 0
             THEN Some(entries[1].port)
             ELSE None

\* A tool call resolves the port of its target project.
FindPort(target) ==
    /\ targetProjectPath' = target
    /\ port' = findExtensionPort(registry, cwd, target)
    /\ UNCHANGED <<serverVars, peerUp, peerBudget, limits, companionVars, registry, cwd, registryVars, poolVars>>

\* The registry files a run of Companions can leave: the keys are the
\* workspace folders, each once, in the order of their first registration.
Registries ==
    {r \in UNION {[1..n -> [key : AbsolutePaths, port : 1..MaxPort]] : n \in 0..MaxEntries} :
        \A i, j \in 1..Len(r) : r[i].key = r[j].key => i = j}

Targets == AbsolutePaths \cup {<<>>} \cup Segments

InitIdleResolver ==
    /\ registry = <<>>
    /\ cwd = Sep \o <<"a">>
    /\ targetProjectPath = <<>>
    /\ port = None

\* -------------------------------------------------------- RegistryManager
\* A registry file: missing, corrupt (not JSON), or ok with the entries of
\* the object in it, in order.
Missing == [state |-> "missing", entries |-> <<>>]

Corrupt == [state |-> "corrupt", entries |-> <<>>]

File(entries) == [state |-> "ok", entries |-> entries]

\* The two locations: os.tmpdir() and /tmp
Locations == {1, 2}

\* `registry = JSON.parse(content)` in the try of updatePortRegistry: a file
\* that cannot be read or parsed leaves the empty registry.
Parsed(content) == IF content.state = "ok" THEN content.entries ELSE <<>>

SetNoKey(entries, key, p) == entries

\* registry[workspace] = port
SetKey(entries, key, p) ==
    IF \E i \in 1..Len(entries) : entries[i].key = key
    THEN [i \in 1..Len(entries) |->
             IF entries[i].key = key THEN [entries[i] EXCEPT !.port = p] ELSE entries[i]]
    ELSE Append(entries, [key |-> key, port |-> p])

OnlyKeys(entries, keys, p) == [i \in 1..Len(keys) |-> [key |-> keys[i], port |-> p]]

\* The loop of updatePortRegistry over workspaceKeys
RECURSIVE SetKeys(_, _, _)
SetKeys(entries, keys, p) ==
    IF keys = <<>> THEN entries
    ELSE SetKeys(SetKey(entries, Head(keys), p), Tail(keys), p)

DeleteNone(entries, p) == entries

\* The loop of removeServerFromRegistry: delete registry[workspace] for
\* every entry of that port
DeletePort(entries, p) == SelectSeq(entries, LAMBDA e : e.port # p)

\* The port of a Companion's socket server; a Companion is its port.
Companions == 1..MaxCompanions

\* The port of a Companion that crashed before these ran.
StalePort == MaxCompanions + 1

\* 'no-workspace-' + process.pid
NoWorkspaceKey(c) == <<"no-workspace-", <<"pid1", "pid2", "pid3">>[c]>>

Folders == {Sep \o s : s \in Segments}

\* vscode.workspace.workspaceFolders: none, one folder or two
FolderLists ==
    {<<>>} \cup {<<f>> : f \in Folders}
           \cup {<<f, g>> : <<f, g>> \in {pair \in Folders \X Folders : pair[1] # pair[2]}}

\* workspaceKeys of updateRegistry
WorkspaceKeys(folders, c) ==
    IF Len(folders) > 0 THEN folders ELSE <<NoWorkspaceKey(c)>>

NewTaskUnguarded(kind, c, keys, address) ==
    [kind |-> kind, c |-> c, keys |-> keys, address |-> address,
     pc |-> [l \in Locations |-> "reading"],
     read |-> [l \in Locations |-> Missing],
     wrote |-> [l \in Locations |-> FALSE]]

\* A call of updateRegistry, updateRegistryForWorkspaceChange or
\* removeFromRegistry: per location, pc is reading (awaits readFile), writing
\* (awaits writeFile) or done; read is the content readFile gave, wrote
\* whether writeFile succeeded.
NewTask(kind, c, keys, address) ==
    [kind |-> kind, c |-> c, keys |-> keys, address |-> address,
     pc |-> [l \in Locations |-> IF kind = "update" /\ ~address THEN "done" ELSE "reading"],
     read |-> [l \in Locations |-> Missing],
     wrote |-> [l \in Locations |-> FALSE]]

\* What the task writes, from what it read.
NewContent(task, l) ==
    IF task.kind = "update"
    THEN File(SetKeys(Parsed(task.read[l]), task.keys, task.c))
    ELSE File(DeletePort(task.read[l].entries, task.c))

\* Whether the Companion has begun its deactivation.
Deactivated(c) == \E t \in 1..Len(tasks) : tasks[t].kind = "remove" /\ tasks[t].c = c

\* updateRegistry / updateRegistryForWorkspaceChange up to the two readFile
\* calls of Promise.all; without an address it returns at once.
UpdateRegistry(c, folders, address) ==
    /\ Len(tasks) < limits.tasks
    /\ ~Deactivated(c)
    /\ tasks' = Append(tasks, NewTask("update", c, WorkspaceKeys(folders, c), address))
    /\ UNCHANGED <<serverVars, peerUp, peerBudget, limits, companionVars, resolverVars, files, poolVars>>

\* The dispose of setupCleanupOnDeactivation: removeFromRegistry up to the
\* two readFile calls.
RemoveFromRegistry(c, address) ==
    /\ Len(tasks) < limits.tasks
    /\ ~Deactivated(c)
    /\ tasks' = Append(tasks, NewTask("remove", c, <<>>, address))
    /\ UNCHANGED <<serverVars, peerUp, peerBudget, limits, companionVars, resolverVars, files, poolVars>>

\* readFile of one location returned or threw.  An update goes on to its
\* writeFile; a removal too, unless the file is missing or unparsable (the
\* catch) or the server has no address.
ReadDone(t, l) ==
    /\ t \in 1..Len(tasks)
    /\ tasks[t].pc[l] = "reading"
    /\ LET task == tasks[t]
           stops == /\ task.kind = "remove"
                    /\ (files[l].state # "ok" \/ ~task.address)
       IN  tasks' = [tasks EXCEPT ![t].read[l] = files[l],
                                  ![t].pc[l] = IF stops THEN "done" ELSE "writing"]
    /\ UNCHANGED <<serverVars, peerUp, peerBudget, limits, companionVars, resolverVars, files, poolVars>>

\* writeFile of one location returned or threw; a failure is logged.
WriteDone(t, l, ok) ==
    /\ t \in 1..Len(tasks)
    /\ tasks[t].pc[l] = "writing"
    /\ files' = IF ok THEN [files EXCEPT ![l] = NewContent(tasks[t], l)] ELSE files
    /\ tasks' = [tasks EXCEPT ![t].pc[l] = "done", ![t].wrote[l] = ok]
    /\ UNCHANGED <<serverVars, peerUp, peerBudget, limits, companionVars, resolverVars, poolVars>>

\* What the two files can hold when the calls start: nothing, garbage, the
\* entry a crashed Companion left, the entry of a running Companion.
InitialContents ==
    {Missing, Corrupt, File(<<>>),
     File(<<[key |-> Sep \o <<"a">>, port |-> StalePort]>>),
     File(<<[key |-> Sep \o <<"a">>, port |-> 1]>>)}

InitIdleRegistry ==
    /\ files = [l \in Locations |-> Missing]
    /\ tasks = <<>>

\* ------------------------------------------- VSCodeServer.getConnection
\* this.connections.has(absolutePath)
Has(map, key) == key \in DOMAIN map

\* this.connections.set(absolutePath, connection)
MapSet(map, key, value) ==
    [k \in DOMAIN map \cup {key} |-> IF k = key THEN value ELSE map[k]]

\* The project paths the tool calls name.
ProjectPaths == Folders \cup {<<"a">>, Sep \o <<"a">> \o Sep \o <<"a">>}

\* A call of getConnection: pc is finding (awaits findExtensionPort),
\* connecting (awaits connection.connect()), failed (it threw) or returned;
\* channel is the connection it took from the map.
NewCall(absolutePath) ==
    [path |-> absolutePath, pc |-> "finding", channel |-> 0]

\* getConnection up to its first await.
GetConnection(projectPath) ==
    /\ Len(calls) < MaxCalls
    /\ LET absolutePath == AbsolutePath(cwd, projectPath)
           call == NewCall(absolutePath)
       IN  calls' = Append(calls,
                       IF Has(connections, absolutePath)
                       THEN [call EXCEPT !.pc = "connecting",
                                         !.channel = connections[absolutePath]]
                       ELSE call)
    /\ UNCHANGED <<serverVars, peerUp, peerBudget, limits, companionVars,
                   resolverVars, registryVars, connections, channels>>

\* findExtensionPort returned: without a port getConnection throws, with one
\* it constructs a channel, stores it under the path and takes the channel
\* of the path from the map.
PortFound(k) ==
    /\ k \in 1..Len(calls)
    /\ calls[k].pc = "finding"
    /\ LET absolutePath == calls[k].path
           found == findExtensionPort(registry, cwd, absolutePath)
           id == Len(channels) + 1
       IN  /\ targetProjectPath' = absolutePath
           /\ port' = found
           /\ IF found = None
              THEN /\ calls' = [calls EXCEPT ![k].pc = "failed"]
                   /\ UNCHANGED <<connections, channels>>
              ELSE /\ channels' = Append(channels, [path |-> absolutePath, port |-> found[1]])
                   /\ connections' = MapSet(connections, absolutePath, id)
                   /\ calls' = [calls EXCEPT ![k].pc = "connecting", ![k].channel = id]
    /\ UNCHANGED <<serverVars, peerUp, peerBudget, limits, companionVars,
                   registry, cwd, registryVars>>

\* The ports on which a Companion listens: those of the registry entries.
LivePorts == {registry[i].port : i \in 1..Len(registry)}

\* connection.connect() returned, a Companion listening on the port of the
\* channel, and getConnection returns the channel.
ChannelReady(k) ==
    /\ k \in 1..Len(calls)
    /\ calls[k].pc = "connecting"
    /\ channels[calls[k].channel].port \in LivePorts
    /\ calls' = [calls EXCEPT ![k].pc = "returned"]
    /\ UNCHANGED <<serverVars, peerUp, peerBudget, limits, companionVars,
                   resolverVars, registryVars, connections, channels>>

\* connection.connect() threw, nothing listening on the port of the channel,
\* and getConnection throws.
ChannelRefused(k) ==
    /\ k \in 1..Len(calls)
    /\ calls[k].pc = "connecting"
    /\ channels[calls[k].channel].port \notin LivePorts
    /\ calls' = [calls EXCEPT ![k].pc = "failed"]
    /\ UNCHANGED <<serverVars, peerUp, peerBudget, limits, companionVars,
                   resolverVars, registryVars, connections, channels>>

\* The Companion on port p deactivates and starts again on port q: its
\* entries are removed, and written again with the new port.
CompanionRestart(p, q) ==
    /\ p \in LivePorts
    /\ q \notin LivePorts
    /\ registry' = [i \in 1..Len(registry) |->
                       IF registry[i].port = p THEN [registry[i] EXCEPT !.port = q]
                       ELSE registry[i]]
    /\ UNCHANGED <<serverVars, peerUp, peerBudget, limits, companionVars,
                   cwd, targetProjectPath, port, registryVars, poolVars>>

InitIdlePool ==
    /\ connections = <<>>
    /\ channels = <<>>
    /\ calls = <<>>

InitServer ==
    /\ connected = FALSE
    /\ socket = NoSocket
    /\ reconnecting = FALSE
    /\ reconnectTimer = None
    /\ reconnectAttempt = 0
    /\ messageQueue = <<>>
    /\ pendingRequests = {}
    /\ requestCounter = 0
    /\ requestTimers = {}
    /\ sockets = <<>>
    /\ up = <<>>
    /\ down = <<>>
    /\ tools = <<>>
    /\ fileContent = 0
    /\ recoveries = 0
    /\ reqs = <<>>
    /\ settleLog = <<>>
    /\ late = {}
    /\ answered = {}
    /\ lastSched = None
    /\ emitted = {}
    /\ disconnects = 0

InitCompanion ==
    /\ cmds = <<>>
    /\ resolveChoice = 0
    /\ originalFilePath = 0
    /\ buttons = "none"
    /\ choices = <<>>
    /\ clicks = 0

InitChannel ==
    /\ InitServer
    /\ InitCompanion
    /\ diffingEnabled = TRUE
    /\ fileOpeningEnabled = TRUE
    /\ shellCommandsEnabled = TRUE
    /\ peerUp = TRUE
    /\ peerBudget = MaxPeerMsgs
    /\ limits = [sockets |-> MaxSockets, tools |-> MaxTools, tasks |-> MaxTasks]
    /\ InitIdleResolver
    /\ InitIdlePool
    /\ InitIdleRegistry

NextChannel ==
    \/ \E type \in ToolTypes : ToolStart(type)
    \/ \E t \in 1..MaxTools : ToolSend(t)
    \/ \E s \in 1..MaxSockets : SocketConnected(s)
    \/ \E s \in 1..MaxSockets : ConnectTimeout(s)
    \/ \E s \in 1..MaxSockets : SocketClosed(s)
    \/ \E s \in 1..MaxSockets, k \in 1..MaxBatch : Data(s, k)
    \/ \E id \in requestTimers : RequestTimeout(id)
    \/ ReconnectTimerFire
    \/ RecoveryStart
    \/ \E s \in 1..MaxSockets, m \in PeerMessages : PeerWrite(s, m)

SpecChannel == InitChannel /\ [][NextChannel]_vars

\* The channel against a Companion process that dies and comes back and
\* never answers: connections are refused while it is down.
NextReconnect ==
    \/ \E type \in ToolTypes : ToolStart(type)
    \/ \E t \in 1..MaxTools : ToolSend(t)
    \/ \E s \in 1..MaxSockets : SocketConnected(s)
    \/ \E s \in 1..MaxSockets : SocketRefused(s)
    \/ \E s \in 1..MaxSockets : ConnectTimeout(s)
    \/ \E s \in 1..MaxSockets : SocketClosed(s)
    \/ \E id \in requestTimers : RequestTimeout(id)
    \/ ReconnectTimerFire
    \/ Dispose
    \/ PeerCrash
    \/ PeerRestart

SpecReconnect == InitChannel /\ [][NextReconnect]_vars

\* --------------------------------------------------- Companion's actions
\* SocketServer, the 'data' event of a connection: the next k writes of the
\* server arrive as one chunk.  One JSON text parses and is handed to
\* handleCommand; more than one do not parse, and the catch answers.
CompanionData(s, k) ==
    /\ s \in 1..Len(sockets)
    /\ sockets[s].state = "open"
    /\ k \in 1..Min(Len(up[s]), MaxBatch)
    /\ up' = [up EXCEPT ![s] = SubSeq(@, k + 1, Len(@))]
    /\ IF k = 1
       THEN CommitCompanion(handleCommand(Companion, up[s][1], s))
       ELSE /\ down' = [down EXCEPT ![s] =
                           Append(@, [json |-> Stringify(ErrorResponse, 0), nl |-> FALSE])]
            /\ UNCHANGED <<cmds, resolveChoice, originalFilePath, buttons, choices>>
    /\ UNCHANGED <<channelRest, clicks>>

\* vscode.diff returned or threw: showDiff goes on to `return choice`, or
\* the catch of handleCommand answers.
DiffShown(c, ok) ==
    /\ c \in 1..Len(cmds)
    /\ cmds[c].pc = "diffOpening"
    /\ LET x == Companion
       IN  CommitCompanion(
             IF ~ok THEN Respond(x, c, ErrorResponse, TRUE)
             ELSE IF cmds[c].choice = "pending"
             THEN [x EXCEPT !.cmds[c].pc = "awaitingChoice"]
             ELSE Respond(x, c, createDiffResponse(cmds[c].choice = "true"), FALSE))
    /\ UNCHANGED <<channelRest, up, clicks>>

\* handleOpen: openTextDocument and showTextDocument returned, or one threw
\* and the catch of handleOpen made the response.
OpenDone(c, ok) ==
    /\ c \in 1..Len(cmds)
    /\ cmds[c].pc = "opening"
    /\ CommitCompanion(Respond(Companion, c,
                               IF ok THEN SuccessResponse ELSE ErrorResponse, FALSE))
    /\ UNCHANGED <<channelRest, up, clicks>>

\* handleExecuteShellCommand: exec returned, or it threw and the catch of the
\* handler made the response.
ExecDone(c, ok) ==
    /\ c \in 1..Len(cmds)
    /\ cmds[c].pc = "executing"
    /\ CommitCompanion(Respond(Companion, c,
                               IF ok THEN SuccessResponse ELSE ErrorResponse, FALSE))
    /\ UNCHANGED <<channelRest, up, clicks>>

\* The user runs mcp.acceptChanges or mcp.rejectChanges, by a status bar
\* button or by the command palette.
Click(accepted) ==
    /\ clicks < MaxClicks
    /\ clicks' = clicks + 1
    /\ CommitCompanion(handleChoice(Companion, accepted))
    /\ UNCHANGED <<channelRest, up>>

\* handleChoice goes on after an await: closeActiveEditor returned,
\* openTextDocument returned or threw, showTextDocument returned.
ChoiceStep(h, ok) ==
    /\ h \in 1..Len(choices)
    /\ LET x == Companion
       IN  CASE choices[h].pc = "closing" ->
                  /\ ok
                  /\ CommitCompanion(
                       IF originalFilePath # 0
                       THEN [x EXCEPT !.choices[h].closed = TRUE,
                                      !.choices[h].pc = "opening"]
                       ELSE [x EXCEPT !.choices[h].closed = TRUE,
                                      !.choices[h].pc = "done",
                                      !.resolveChoice = 0])
             [] choices[h].pc = "opening" ->
                  CommitCompanion(
                       [x EXCEPT !.choices[h].pc = IF ok THEN "showing" ELSE "failed"])
             [] choices[h].pc = "showing" ->
                  /\ ok
                  /\ CommitCompanion(
                       [x EXCEPT !.choices[h].opened = TRUE,
                                 !.choices[h].pc = "done",
                                 !.originalFilePath = 0,
                                 !.resolveChoice = 0])
             [] OTHER -> FALSE
    /\ UNCHANGED <<channelRest, up, clicks>>

\* The -32000 recovery: one tool call, a peer that answers it with the error,
\* dies or stalls, while the recovery and the reconnect timer open sockets.
InitRecovery ==
    /\ InitServer
    /\ InitCompanion
    /\ diffingEnabled = TRUE
    /\ fileOpeningEnabled = TRUE
    /\ shellCommandsEnabled = TRUE
    /\ peerUp = TRUE
    /\ peerBudget = MaxRecoveryMsgs
    /\ limits = [sockets |-> MaxRecoverySockets, tools |-> MaxRecoveryTools, tasks |-> MaxTasks]
    /\ InitIdleResolver
    /\ InitIdlePool
    /\ InitIdleRegistry

NextRecovery ==
    \/ \E type \in ToolTypes : ToolStart(type)
    \/ \E t \in 1..MaxRecoveryTools : ToolSend(t)
    \/ \E s \in 1..MaxRecoverySockets : SocketConnected(s)
    \/ \E s \in 1..MaxRecoverySockets : SocketRefused(s)
    \/ \E s \in 1..MaxRecoverySockets : ConnectTimeout(s)
    \/ \E s \in 1..MaxRecoverySockets : SocketClosed(s)
    \/ \E s \in 1..MaxRecoverySockets : Data(s, 1)
    \/ \E id \in requestTimers : RequestTimeout(id)
    \/ ReconnectTimerFire
    \/ RecoveryStart
    \/ \E s \in 1..MaxRecoverySockets, m \in PeerMessages : PeerWrite(s, m)
    \/ PeerCrash

SpecRecovery == InitRecovery /\ [][NextRecovery]_vars

\* Health checks of a channel to the Companion of this repository.
InitPing ==
    /\ InitServer
    /\ InitCompanion
    /\ diffingEnabled = TRUE
    /\ fileOpeningEnabled = TRUE
    /\ shellCommandsEnabled = TRUE
    /\ peerUp = TRUE
    /\ peerBudget = 0
    /\ limits = [sockets |-> MaxSockets, tools |-> MaxRecoveryTools, tasks |-> MaxTasks]
    /\ InitIdleResolver
    /\ InitIdlePool
    /\ InitIdleRegistry

NextPing ==
    \/ \E type \in ToolTypes : ToolStart(type)
    \/ \E s \in 1..MaxSockets : SocketConnected(s)
    \/ \E s \in 1..MaxSockets : ConnectTimeout(s)
    \/ \E s \in 1..MaxSockets : SocketClosed(s)
    \/ \E s \in 1..MaxSockets, k \in 1..MaxBatch : Data(s, k)
    \/ \E id \in requestTimers : RequestTimeout(id)
    \/ ReconnectTimerFire
    \/ HealthCheck
    \/ \E s \in 1..MaxSockets, k \in 1..MaxBatch : CompanionData(s, k)

SpecPing == InitPing /\ [][NextPing]_vars

\* The settings gate: tool calls of the three gated kinds against a Companion
\* with any settings.
GatedToolTypes == ToolTypes \cup {"executeShellCommand"}

InitSettings ==
    /\ InitServer
    /\ InitCompanion
    /\ diffingEnabled \in BOOLEAN
    /\ fileOpeningEnabled \in BOOLEAN
    /\ shellCommandsEnabled \in BOOLEAN
    /\ peerUp = TRUE
    /\ peerBudget = 0
    /\ limits = [sockets |-> MaxSockets, tools |-> MaxTools, tasks |-> MaxTasks]
    /\ InitIdleResolver
    /\ InitIdlePool
    /\ InitIdleRegistry

NextSettings ==
    \/ \E type \in GatedToolTypes : ToolStart(type)
    \/ \E t \in 1..MaxTools : ToolSend(t)
    \/ \E s \in 1..MaxSockets : SocketConnected(s)
    \/ \E s \in 1..MaxSockets : Data(s, 1)
    \/ \E s \in 1..MaxSockets : CompanionData(s, 1)
    \/ \E c \in 1..MaxTools, ok \in BOOLEAN : DiffShown(c, ok)
    \/ \E c \in 1..MaxTools, ok \in BOOLEAN : OpenDone(c, ok)
    \/ \E c \in 1..MaxTools, ok \in BOOLEAN : ExecDone(c, ok)
    \/ \E accepted \in BOOLEAN : Click(accepted)
    \/ \E h \in 1..MaxClicks, ok \in BOOLEAN : ChoiceStep(h, ok)

SpecSettings == InitSettings /\ [][NextSettings]_vars

\* The Port Resolver over every registry and target.
InitResolver ==
    /\ InitServer
    /\ InitCompanion
    /\ diffingEnabled = TRUE /\ fileOpeningEnabled = TRUE /\ shellCommandsEnabled = TRUE
    /\ peerUp = TRUE
    /\ peerBudget = 0
    /\ limits = [sockets |-> MaxSockets, tools |-> MaxTools, tasks |-> MaxTasks]
    /\ registry \in Registries
    /\ cwd \in {Sep \o s : s \in Segments}
    /\ targetProjectPath = <<>>
    /\ port = None
    /\ InitIdleRegistry
    /\ InitIdlePool

NextResolver == \E target \in Targets : FindPort(target)

SpecResolver == InitResolver /\ [][NextResolver]_vars

\* Companions that register, change folders and deactivate, on two files
\* that start identical.
InitRegistry ==
    /\ InitServer
    /\ InitCompanion
    /\ diffingEnabled = TRUE /\ fileOpeningEnabled = TRUE /\ shellCommandsEnabled = TRUE
    /\ peerUp = TRUE
    /\ peerBudget = 0
    /\ limits = [sockets |-> MaxSockets, tools |-> MaxTools, tasks |-> MaxTasks]
    /\ InitIdleResolver
    /\ InitIdlePool
    /\ \E content \in InitialContents : files = [l \in Locations |-> content]
    /\ tasks = <<>>

NextRegistry ==
    \/ \E c \in Companions, folders \in FolderLists, address \in BOOLEAN :
          UpdateRegistry(c, folders, address)
    \/ \E c \in Companions, address \in BOOLEAN : RemoveFromRegistry(c, address)
    \/ \E t \in 1..MaxTasks, l \in Locations : ReadDone(t, l)
    \/ \E t \in 1..MaxTasks, l \in Locations, ok \in BOOLEAN : WriteDone(t, l, ok)

SpecRegistry == InitRegistry /\ [][NextRegistry]_vars

\* Companions that register and change folders, each with its socket server
\* listening and one folder open, on two registry files that start empty;
\* the writes succeed.
InitLifecycle ==
    /\ InitServer
    /\ InitCompanion
    /\ diffingEnabled = TRUE /\ fileOpeningEnabled = TRUE /\ shellCommandsEnabled = TRUE
    /\ peerUp = TRUE
    /\ peerBudget = 0
    /\ limits = [sockets |-> MaxSockets, tools |-> MaxTools, tasks |-> MaxLifecycleTasks]
    /\ InitIdleResolver
    /\ InitIdlePool
    /\ \E content \in {Missing, File(<<>>)} : files = [l \in Locations |-> content]
    /\ tasks = <<>>

NextLifecycle ==
    \/ \E c \in Companions, f \in Folders : UpdateRegistry(c, <<f>>, TRUE)
    \/ \E t \in 1..MaxLifecycleTasks, l \in Locations : ReadDone(t, l)
    \/ \E t \in 1..MaxLifecycleTasks, l \in Locations : WriteDone(t, l, TRUE)

SpecLifecycle == InitLifecycle /\ [][NextLifecycle]_vars

\* Tool calls that ask for the channel of their project, with a registry of
\* at most one entry.
InitPool ==
    /\ InitServer
    /\ InitCompanion
    /\ diffingEnabled = TRUE /\ fileOpeningEnabled = TRUE /\ shellCommandsEnabled = TRUE
    /\ peerUp = TRUE
    /\ peerBudget = 0
    /\ limits = [sockets |-> MaxSockets, tools |-> MaxTools, tasks |-> MaxTasks]
    /\ registry \in {r \in Registries : Len(r) <= 1}
    /\ cwd = Sep \o <<"a">>
    /\ targetProjectPath = <<>>
    /\ port = None
    /\ InitIdleRegistry
    /\ InitIdlePool

NextPool ==
    \/ \E projectPath \in ProjectPaths : GetConnection(projectPath)
    \/ \E k \in 1..MaxCalls : PortFound(k)
    \/ \E k \in 1..MaxCalls : ChannelReady(k)
    \/ \E k \in 1..MaxCalls : ChannelRefused(k)
    \/ \E p, q \in 1..MaxPort : CompanionRestart(p, q)

SpecPool == InitPool /\ [][NextPool]_vars

\* The server and the Companion of this repository, end to end.
Init ==
    /\ InitServer
    /\ InitCompanion
    /\ diffingEnabled \in BOOLEAN
    /\ fileOpeningEnabled \in BOOLEAN
    /\ shellCommandsEnabled = TRUE
    /\ peerUp = TRUE
    /\ peerBudget = 0
    /\ limits = [sockets |-> MaxSockets, tools |-> MaxTools, tasks |-> MaxTasks]
    /\ InitIdleResolver
    /\ InitIdlePool
    /\ InitIdleRegistry

Next ==
    \/ \E type \in ToolTypes : ToolStart(type)
    \/ \E t \in 1..MaxTools : ToolSend(t)
    \/ \E s \in 1..MaxSockets : SocketConnected(s)
    \/ \E s \in 1..MaxSockets : ConnectTimeout(s)
    \/ \E s \in 1..MaxSockets : SocketClosed(s)
    \/ \E s \in 1..MaxSockets, k \in 1..MaxBatch : Data(s, k)
    \/ \E id \in requestTimers : RequestTimeout(id)
    \/ ReconnectTimerFire
    \/ \E s \in 1..MaxSockets, k \in 1..MaxBatch : CompanionData(s, k)
    \/ \E c \in 1..MaxTools, ok \in BOOLEAN : DiffShown(c, ok)
    \/ \E c \in 1..MaxTools, ok \in BOOLEAN : OpenDone(c, ok)
    \/ \E accepted \in BOOLEAN : Click(accepted)
    \/ \E h \in 1..MaxClicks, ok \in BOOLEAN : ChoiceStep(h, ok)

Spec == Init /\ [][Next]_vars

\* ------------------------------------------------------------------ claims
FirstSettlement(id) == Settlements(settleLog, id)[1]

\* C2: every sendRequest promise is settled exactly once, by a response that
\* carries its id, by its timeout or by disconnect(); the id is in the pending
\* table exactly until then, no timer outlives it, and a response that arrives
\* after the timeout settles nothing.
C2_SettledExactlyOnce ==
    \A id \in 1..requestCounter :
        LET mine == Settlements(settleLog, id)
        IN  /\ Len(mine) <= 1
            /\ (id \in pendingRequests) <=> (mine = <<>>)
            /\ (id \in requestTimers) => (id \in pendingRequests)

\* A request was rejected by its timeout and a response with its id arrived
\* afterwards.
C2_Witness ==
    \E id \in 1..requestCounter :
        /\ Len(Settlements(settleLog, id)) = 1
        /\ FirstSettlement(id).why = "timeout"
        /\ id \in late

\* C3: a request settled by a response is settled with the response that
\* carries its own id, whatever the order of arrival.
C3_OwnResponse ==
    \A i \in 1..Len(settleLog) :
        settleLog[i].why = "response" => settleLog[i].msg.id = settleLog[i].id

\* Two requests were resolved in the reverse of the order they were sent in,
\* with different results.
C3_Witness ==
    \E i, j \in 1..Len(settleLog) :
        /\ i < j
        /\ settleLog[i].id > settleLog[j].id
        /\ settleLog[i].how = "resolve"
        /\ settleLog[j].how = "resolve"
        /\ settleLog[i].msg.accepted # settleLog[j].msg.accepted

C10_RetriesUntilFailed ==
    (reconnecting /\ ~connected /\ "reconnectFailed" \notin emitted) =>
        \/ reconnectTimer # None
        \/ \E s \in 1..Len(sockets) : sockets[s].state = "connecting"

\* C1: a request whose answer from the Command Dispatcher was read by the
\* channel while the request was pending is settled by that answer.
C1_SettledByResponse ==
    \A r \in answered :
        /\ Settlements(settleLog, r) # <<>>
        /\ FirstSettlement(r).why = "response"
        /\ FirstSettlement(r).msg.re = r

AwaitingChoice(c) == cmds[c].pc = "awaitingChoice"

\* C4: an accept or reject fired while a showDiff call awaits the choice
\* resolves the promise of that call; and once every handleChoice has run to
\* its end and no call awaits, no resolver and no original path are stored.
C4_ChoiceResolvesCall ==
    /\ [][\A c \in 1..Len(cmds) :
             (AwaitingChoice(c) /\ clicks' # clicks) => cmds'[c].choice # "pending"]_vars
    /\ []((/\ choices # <<>>
           /\ \A h \in 1..Len(choices) : choices[h].pc = "done"
           /\ \A c \in 1..Len(cmds) : cmds[c].choice # "pending")
          => (resolveChoice = 0 /\ originalFilePath = 0))

\* C5: at most one showDiff call awaits the choice, and a showDiff command
\* handled while one does is answered with an error and leaves the stored
\* resolver and original path as they were.
C5_OneSession ==
    /\ [](Cardinality({c \in 1..Len(cmds) : AwaitingChoice(c)}) <= 1)
    /\ [][(/\ resolveChoice # 0
           /\ AwaitingChoice(resolveChoice)
           /\ Len(cmds') > Len(cmds)
           /\ cmds'[Len(cmds')].type = "showDiff")
          => (/\ resolveChoice' = resolveChoice
              /\ originalFilePath' = originalFilePath
              /\ cmds'[Len(cmds')].response.success = "false")]_vars

\* C7: a showDiff request is not failed by its request timeout while the
\* showDiff call it started in the Companion still waits for the user.
C7_NoTimeoutWhileWaiting ==
    [][\A c \in 1..Len(cmds) :
          (/\ cmds[c].type = "showDiff"
           /\ cmds[c].pc \in {"diffOpening", "awaitingChoice"}
           /\ cmds[c].choice = "pending"
           /\ cmds[c].re \in pendingRequests)
          => ~ \E i \in 1..Len(settleLog') :
                   /\ settleLog'[i].id = cmds[c].re
                   /\ settleLog'[i].why = "timeout"]_vars

\* C8: an accept or reject fired when the stored resolver's promise is already
\* settled stops at the guard of handleChoice: it disposes nothing, closes no
\* editor and opens no file.
C8_StaleChoiceNoEffect ==
    \A h \in 1..Len(choices) : ~choices[h].stale

\* C9, as the code has it: a showDiff command whose handler returned is
\* answered {success:true, accepted:<boolean>}, with the user's choice when
\* the user made one; a showDiff command whose handler threw is answered
\* {success:false, error}.
C9_ShowDiffResponse ==
    \A c \in 1..Len(cmds) :
        (cmds[c].type = "showDiff" /\ cmds[c].pc = "done") =>
            IF cmds[c].threw
            THEN cmds[c].response = ErrorResponse
            ELSE /\ cmds[c].response.success = "true"
                 /\ cmds[c].response.accepted \in {"true", "false"}
                 /\ cmds[c].response.error = "none"
                 /\ cmds[c].choice # "none" => cmds[c].response.accepted = cmds[c].choice

\* One showDiff was answered with the user's reject, another one threw.
C9_Witness ==
    \E c, d \in 1..Len(cmds) :
        /\ cmds[c].type = "showDiff" /\ cmds[c].pc = "done" /\ ~cmds[c].threw
        /\ cmds[c].response.accepted = "false"
        /\ cmds[d].type = "showDiff" /\ cmds[d].pc = "done" /\ cmds[d].threw

\* C9 as stated: every response written for a showDiff command is
\* {success:true, accepted:<boolean>}.
C9_AlwaysSuccess ==
    \A c \in 1..Len(cmds) :
        (cmds[c].type = "showDiff" /\ cmds[c].pc = "done") =>
            /\ cmds[c].response.success = "true"
            /\ cmds[c].response.accepted \in {"true", "false"}

\* The 'close' event of socket s is handled in this step.
ClosesNow(s) == sockets[s].state # "closed" /\ sockets'[s].state = "closed"

\* C11: the close of the socket of a connected channel that disconnect() did
\* not end leaves a reconnect scheduled, and the close of a socket that
\* disconnect() ended schedules none.
C11_ReconnectIffUnexpected ==
    [][\A s \in 1..Len(sockets) :
          ClosesNow(s) =>
             /\ (connected /\ socket = s /\ ~sockets[s].ended) => reconnectTimer' # None
             /\ (sockets[s].ended /\ reconnectTimer = None) => reconnectTimer' = None]_vars

\* A reconnect attempt is on its way: its timer is armed or a connection is
\* being opened.
AttemptInProgress ==
    \/ reconnectTimer # None
    \/ \E s \in 1..Len(sockets) : sockets[s].state = "connecting"

\* C12: a sendRequest made while the channel is not connected appends its
\* payload to the tail of the queue, and arms a reconnect with delay 0 unless
\* an attempt is already on its way.
C12_QueuedAndReconnecting ==
    [][(requestCounter' = requestCounter + 1 /\ ~connected) =>
          /\ messageQueue' = Append(messageQueue,
                                    [id |-> requestCounter', type |-> reqs'[requestCounter'].type])
          /\ AttemptInProgress \/ reconnectTimer' = Some(0)]_vars

\* C13: when the connect-timeout timer of an attempt whose socket is still
\* connecting fires, the connect() promise of the attempt is rejected and the
\* socket of the attempt is destroyed.
C13_TimeoutDestroysOwnSocket ==
    [][\A s \in 1..Len(sockets) :
          (/\ sockets[s].state = "connecting"
           /\ sockets[s].timer
           /\ ~sockets'[s].timer
           /\ sockets'[s].state # "open")
          => (/\ sockets'[s].promise = "rejected"
              /\ sockets'[s].state \in {"closing", "closed"})]_vars

\* C14: a call of disconnect() leaves the pending table empty, leaves no timer
\* of a request that was pending, and rejects each of these requests, once,
\* with 'Connection closed'.
C14_DisconnectRejectsAll ==
    [][disconnects' = disconnects + 1 =>
          /\ pendingRequests' = {}
          /\ requestTimers' \cap pendingRequests = {}
          /\ \A id \in pendingRequests :
                LET mine == Settlements(settleLog', id)
                IN  /\ Len(mine) = 1
                    /\ mine[1].how = "reject"
                    /\ mine[1].why = "closed"]_vars

\* disconnect() was called while a request was pending, and rejected it.
C14_Witness ==
    /\ disconnects > 0
    /\ \E i \in 1..Len(settleLog) : settleLog[i].why = "closed"
    /\ pendingRequests = {}

\* C15: a recovery that waits for the connect() of its forced reconnect can
\* still end: the socket of that connect() is connecting, or the timer that
\* rejects the call is armed.
C15_RecoveryCanEnd ==
    \A s \in 1..Len(sockets) :
        (sockets[s].caller.kind = "force" /\ sockets[s].promise = "pending")
        => (sockets[s].state = "connecting" \/ sockets[s].timer)

\* C16: a ping whose answer from the Companion was read while the ping was
\* pending returns true.
C16_PingTrueWhenAnswered ==
    \A id \in PingRequests :
        id \in answered =>
            /\ Settlements(settleLog, id) # <<>>
            /\ PingReturn(FirstSettlement(id))

\* C17: every command the Companion has read is answered once on its socket:
\* an invocation of handleCommand has either written its response, with
\* success false when its handler threw, or is still able to write it (it
\* waits for the editor, or for a choice that the stored resolver delivers).
C17_OneResponsePerCommand ==
    \A c \in 1..Len(cmds) :
        /\ cmds[c].pc = "done" => cmds[c].response # NoResponse
        /\ cmds[c].threw => cmds[c].response = ErrorResponse
        /\ cmds[c].pc = "awaitingChoice" => resolveChoice = c

\* C18: a command of a disabled feature is answered without its handler:
\* showDiff with diffing disabled by {success:true, accepted:true}, and no
\* diff session exists; open with file opening disabled and
\* executeShellCommand with shell commands disabled by success:false with the
\* 'disabled' error, and nothing is opened or executed.
C18_DisabledAnsweredWithoutHandler ==
    /\ \A c \in 1..Len(cmds) :
          LET cmd == cmds[c] IN
          /\ (cmd.type = "showDiff" /\ ~diffingEnabled) =>
                /\ ~cmd.handler
                /\ cmd.pc = "done"
                /\ cmd.response = createDiffResponse(TRUE)
          /\ (cmd.type = "open" /\ ~fileOpeningEnabled) =>
                /\ ~cmd.handler
                /\ cmd.pc = "done"
                /\ cmd.response = DisabledResponse
          /\ (cmd.type = "executeShellCommand" /\ ~shellCommandsEnabled) =>
                /\ ~cmd.handler
                /\ cmd.pc = "done"
                /\ cmd.response = DisabledResponse
    /\ ~diffingEnabled => (resolveChoice = 0 /\ buttons = "none")

C18_Witness ==
    /\ ~diffingEnabled
    /\ ~shellCommandsEnabled
    /\ \E c \in 1..Len(cmds) : cmds[c].type = "showDiff" /\ cmds[c].pc = "done"
    /\ \E c \in 1..Len(cmds) : cmds[c].type = "executeShellCommand" /\ cmds[c].pc = "done"

\* The key the target resolves to, as the last call of findExtensionPort saw it.
TargetKey == AbsolutePath(cwd, targetProjectPath)

\* The registered workspaces the target lies inside.
Ancestors == {i \in 1..Len(registry) : StartsWith(TargetKey, registry[i].key \o Sep)}

\* C19: when the registry has a key equal to the absolute target path, the
\* resolver returns the port stored under that key, whatever other keys are
\* ancestors or descendants of the target and whatever the order of entries.
C19_ExactKeyWins ==
    targetProjectPath # <<>> =>
        \A i \in 1..Len(registry) :
            registry[i].key = TargetKey => port = Some(registry[i].port)

C19_Witness ==
    /\ targetProjectPath # <<>>
    /\ \E i, j \in 1..Len(registry) :
          /\ j < i
          /\ registry[i].key = TargetKey
          /\ registry[j].port # registry[i].port
          /\ j \in Ancestors
          /\ port = Some(registry[i].port)

\* C20: without an exact key, a target inside several registered workspaces
\* gets the port of the longest ancestor key, whatever the order of entries.
C20_LongestAncestorWins ==
    (targetProjectPath # <<>> /\ ExactMatch(registry, TargetKey) = 0 /\ Ancestors # {}) =>
        \E i \in Ancestors :
            /\ \A j \in Ancestors : Len(registry[j].key) <= Len(registry[i].key)
            /\ port = Some(registry[i].port)

\* The registry entries whose key is the target, an ancestor or a descendant.
RelatedEntries ==
    {i \in 1..Len(registry) :
        registry[i].key = TargetKey \/ Related(TargetKey, registry[i].key)}

\* C21: when no registry key equals the target path or is an ancestor or a
\* descendant of it, the resolver returns NotFound (null), never the port of
\* an unrelated workspace.
C21_UnrelatedIsNotFound ==
    (targetProjectPath # <<>> /\ RelatedEntries = {}) => port = None

\* A registry as a mapping: its keys, and the port under a key.
KeysOf(entries) == {entries[i].key : i \in 1..Len(entries)}

PortOf(entries, key) ==
    entries[CHOOSE i \in 1..Len(entries) : entries[i].key = key].port

KeysOfTask(task) == {task.keys[i] : i \in 1..Len(task.keys)}

\* The call t completes a successful writeFile at location l in this step,
\* and the file was not written since the call read it.
WritesNow(t, l) ==
    /\ t \in 1..Len(tasks)
    /\ tasks[t].pc[l] = "writing"
    /\ tasks'[t].pc[l] = "done"
    /\ tasks'[t].wrote[l]
    /\ tasks[t].read[l] = files[l]

\* C22: an update with port p and keys K writes, to a registry file, the
\* previous content of the file with every key of K set to p and every other
\* key unchanged; a missing or unparsable file counts as the empty mapping.
C22_UpdateMergesKeys ==
    [][\A t \in 1..MaxTasks, l \in Locations :
          (WritesNow(t, l) /\ tasks[t].kind = "update") =>
              LET before == IF files[l].state = "ok" THEN files[l].entries ELSE <<>>
                  after == files'[l].entries
                  K == KeysOfTask(tasks[t])
              IN  /\ files'[l].state = "ok"
                  /\ KeysOf(after) = KeysOf(before) \cup K
                  /\ \A k \in K : PortOf(after, k) = tasks[t].c
                  /\ \A k \in KeysOf(before) \ K : PortOf(after, k) = PortOf(before, k)]_vars

C22_Witness ==
    \E t \in 1..Len(tasks) :
        /\ tasks[t].kind = "update"
        /\ \A l \in Locations :
              /\ tasks[t].wrote[l]
              /\ tasks[t].read[l].state = "ok"
              /\ Len(files[l].entries) = 2
              /\ \E i \in 1..2 : files[l].entries[i].port = StalePort

AllTasksDone == \A t \in 1..Len(tasks), l \in Locations : tasks[t].pc[l] = "done"

SameMapping(a, b) ==
    /\ KeysOf(a) = KeysOf(b)
    /\ \A k \in KeysOf(a) : PortOf(a, k) = PortOf(b, k)

\* C24: the two registry files, identical at the start, hold the same
\* mapping whenever the updates and removals begun so far have completed,
\* also when calls interleave or a write to one location fails.
C24_Lockstep ==
    AllTasksDone => SameMapping(Parsed(files[1]), Parsed(files[2]))

\* The Companion c has shut down cleanly: its removal and every update it
\* began have completed, and the removal wrote each file it could read.
CleanShutdown(c) ==
    /\ \A t \in 1..Len(tasks), l \in Locations :
          tasks[t].c = c => tasks[t].pc[l] = "done"
    /\ \E t \in 1..Len(tasks) :
          /\ tasks[t].kind = "remove"
          /\ tasks[t].c = c
          /\ tasks[t].address
          /\ \A l \in Locations : tasks[t].wrote[l] \/ tasks[t].read[l].state # "ok"

\* C25: once a Companion has shut down cleanly, no entry of either registry
\* file maps to its port, also when updates of other Companions interleave
\* with the removal.
C25_NoEntryAfterShutdown ==
    \A c \in Companions :
        CleanShutdown(c) =>
            \A l \in Locations :
                \A i \in 1..Len(files[l].entries) : files[l].entries[i].port # c

\* C26: the server constructs at most one channel per absolute target path,
\* and every call of getConnection for the path gets that channel, also when
\* calls for the same path are in flight together.
C26_OneChannelPerPath ==
    /\ \A i, j \in 1..Len(channels) : channels[i].path = channels[j].path => i = j
    /\ \A k \in 1..Len(calls) :
          calls[k].channel # 0 => calls[k].channel = connections[calls[k].path]

\* The Companion answered the request of tool call t with a handler-level
\* failure, and the channel read the answer while the request was pending.
FailureAnswered(t) ==
    /\ tools[t].req \in answered
    /\ \E c \in 1..Len(cmds) :
          /\ cmds[c].re = tools[t].req
          /\ cmds[c].pc = "done"
          /\ cmds[c].response.success = "false"

\* C27: when the Companion answers a request with {success:false,
\* error:<message>}, the result of the tool call is a text that contains
\* that message.
C27_FailureTextHasMessage ==
    \A t \in 1..Len(tools) :
        (tools[t].pc = "done" /\ FailureAnswered(t)) => tools[t].text = "message"

\* The diff session of invocation c is the latest one DiffManager.showDiff
\* started.
LatestSession(c) ==
    /\ cmds[c].type = "showDiff"
    /\ cmds[c].handler
    /\ \A d \in (c + 1)..Len(cmds) : ~(cmds[d].type = "showDiff" /\ cmds[d].handler)

\* C28: a diff session that waits for its choice stays resolvable until it is
\* itself accepted or rejected: the cleanup of an earlier, resolved session
\* clears neither its resolver nor its original path.
C28_CleanupSparesNewSession ==
    \A c \in 1..Len(cmds) :
        (LatestSession(c) /\ cmds[c].pc = "awaitingChoice" /\ cmds[c].choice = "pending")
            => (resolveChoice = c /\ originalFilePath = c)

\* C29: on every successful connect the messages of the queue are written to
\* a socket of the channel in the order they were queued, and (no write
\* failing) none stays behind.
C29_FlushOnConnect ==
    [][(~connected /\ connected') =>
          /\ messageQueue' = <<>>
          /\ \/ messageQueue = <<>>
             \/ \E s \in 1..Len(sockets) : up'[s] = up[s] \o messageQueue]_vars

\* The number of requests the Companion reads from socket s in this step.
ReadByCompanion(s) ==
    IF sockets[s].state = "open" /\ sockets' = sockets /\ Len(up'[s]) < Len(up[s])
    THEN Len(up[s]) - Len(up'[s])
    ELSE 0

\* C30: when several requests reach the Companion in one data event, each
\* of them is dispatched to handleCommand on its own.
C30_EachRequestDispatched ==
    [][\A s \in 1..Len(sockets) :
          ReadByCompanion(s) > 0 => Len(cmds') = Len(cmds) + ReadByCompanion(s)]_vars

\* The writes the channel reads from socket s in this step, as one data event.
BatchRead(s) ==
    IF s <= Len(down) /\ sockets[s].state = "open" /\ Len(down'[s]) < Len(down[s])
    THEN SubSeq(down[s], 1, Len(down[s]) - Len(down'[s]))
    ELSE <<>>

\* C31: when a data event carries several newline-separated messages and one
\* is not valid JSON, every other message of the batch is processed in
\* arrival order and delivered to its pending request.
C31_BadLineSkippedOnly ==
    [][\A s \in 1..Len(sockets) :
          LET batch == BatchRead(s) IN
          (\A i \in 1..Len(batch) : batch[i].nl) =>
              \A i \in 1..Len(batch) :
                  LET m == batch[i].json IN
                  (/\ m.ok
                   /\ m.id \in pendingRequests
                   /\ \A j \in 1..(i - 1) : batch[j].json.id # m.id)
                  => /\ m.id \notin pendingRequests'
                     /\ \E n \in (Len(settleLog) + 1)..Len(settleLog') :
                           /\ settleLog'[n].id = m.id
                           /\ settleLog'[n].why = "response"
                           /\ settleLog'[n].msg = m
                           /\ \A j \in 1..(i - 1), p \in (n + 1)..Len(settleLog') :
                                 settleLog'[p].id # batch[j].json.id]_vars

C31_Witness ==
    /\ "parseError" \in emitted
    /\ peerBudget = 0
    /\ \A s \in 1..Len(down) : down[s] = <<>>
    /\ \E n \in 1..Len(settleLog) : settleLog[n].why = "response"
    /\ Len(sockets) = 1

\* C32: whenever connected is true the channel holds a socket, and it is the
\* socket whose connect event set the flag: the close of a socket that
\* disconnect() or forceReconnect() replaced does not discard it.
C32_ConnectedHasItsSocket ==
    connected => (socket # NoSocket /\ sockets[socket].state \in {"open", "closing"})

\* C33: when the connect-timeout timer of an attempt that has already failed
\* (its socket is closed) fires, the socket of no other attempt is destroyed.
C33_TimerSparesNewerAttempt ==
    [][\A s \in 1..Len(sockets) :
          (/\ sockets[s].state = "closed"
           /\ sockets[s].timer
           /\ ~sockets'[s].timer)
          => \A n \in 1..Len(sockets) :
                (n # s /\ sockets[n].state \in {"connecting", "open"})
                   => sockets'[n].state = sockets[n].state]_vars


\* C34: at any time at most one socket of the channel is connecting or open
\* (a socket that disconnect() ended or a timeout destroyed does not count).
C34_OneLiveSocket ==
    Cardinality({s \in 1..Len(sockets) :
                    sockets[s].state \in {"connecting", "open"} /\ ~sockets[s].ended}) <= 1


\* C35: every payload a step writes to a socket belongs to a request that is
\* still pending: a request rejected while its payload waited in the queue is
\* not written by a later flush.
C35_NoWriteAfterRejection ==
    [][\A s \in 1..Len(up) :
          \A i \in (Len(up[s]) + 1)..Len(up'[s]) :
             \/ up'[s][i].id \in pendingRequests
             \/ up'[s][i].id = requestCounter + 1]_vars


\* The directories a path lies inside: what precedes each of its separators.
Parents(p) == {SubSeq(p, 1, n - 1) : n \in {i \in 2..Len(p) : p[i] = "/"}}

\* One path is a directory the other lies inside.
Nested(p, q) == p \in Parents(q) \/ q \in Parents(p)

\* The registry entries whose key is an ancestor or a descendant of the target.
NestedEntries == {i \in 1..Len(registry) : Nested(TargetKey, registry[i].key)}

\* The registry entries whose key is a string prefix of the target, or the
\* target of the key, without being its ancestor or descendant.
PrefixOnlyEntries ==
    {i \in 1..Len(registry) :
        /\ registry[i].key # TargetKey
        /\ StartsWith(TargetKey, registry[i].key) \/ StartsWith(registry[i].key, TargetKey)
        /\ ~Nested(TargetKey, registry[i].key)}

\* C36: without an exact key, the resolver returns the port of the first key
\* that is an ancestor or a descendant of the target at a path-separator
\* boundary: a key that is merely a string prefix of the target, or the
\* target of the key, is passed over.
C36_MatchAtSeparatorOnly ==
    (targetProjectPath # <<>> /\ ExactMatch(registry, TargetKey) = 0 /\ NestedEntries # {}) =>
        port = Some(registry[CHOOSE i \in NestedEntries : \A j \in NestedEntries : i <= j].port)

C36_Witness ==
    /\ targetProjectPath # <<>>
    /\ ExactMatch(registry, TargetKey) = 0
    /\ \E i \in PrefixOnlyEntries, j \in NestedEntries :
          /\ i < j
          /\ registry[i].port # registry[j].port
          /\ port = Some(registry[j].port)


\* The entries of the keys of call u are missing from what call t read at
\* location l, although u wrote them there: u and a call v of another
\* Companion read the same content, and t read what v wrote.
LostByRace(u, v, t, l) ==
    /\ tasks[u].c = tasks[t].c
    /\ tasks[v].c # tasks[t].c
    /\ tasks[u].wrote[l] /\ tasks[v].wrote[l]
    /\ tasks[u].read[l] = tasks[v].read[l]
    /\ tasks[t].read[l] = NewContent(tasks[v], l)
    /\ KeysOfTask(tasks[u]) \cap KeysOf(tasks[t].read[l].entries) = {}

\* C37: when an update of a Companion completes its read-modify-write cycle
\* at a location without an interleaved writer, every workspace key of the
\* update maps to the Companion's port in the file, also when the entries
\* had been lost there to the cycle of another Companion.
C37_NextEventRestores ==
    [][\A t \in 1..MaxLifecycleTasks, l \in Locations :
          (WritesNow(t, l) /\ tasks[t].kind = "update") =>
              \A k \in KeysOfTask(tasks[t]) :
                  /\ k \in KeysOf(files'[l].entries)
                  /\ PortOf(files'[l].entries, k) = tasks[t].c]_vars

C37_Witness ==
    /\ Len(tasks) = 3
    /\ tasks[3].keys = tasks[1].keys
    /\ \A l \in Locations :
          /\ LostByRace(1, 2, 3, l)
          /\ tasks[3].wrote[l]
          /\ \A k \in KeysOfTask(tasks[3]) :
                k \in KeysOf(files[l].entries) /\ PortOf(files[l].entries, k) = tasks[3].c


\* The keys that map to port p in a registry.
KeysOfPort(entries, p) == {k \in KeysOf(entries) : PortOf(entries, k) = p}

\* C38: an update writes a registry file only when the Companion's socket
\* server is listening (it has an address), and an update without address
\* never reads or writes; the keys a write maps to the Companion's port,
\* beyond those the file already mapped to it, are the keys of the update:
\* the open workspace folders, or the single no-workspace key of the process.
C38_WritesOnlyWhenListening ==
    [][\A t \in 1..Len(tasks) :
          tasks[t].kind = "update" =>
             /\ ~tasks[t].address => tasks'[t] = tasks[t]
             /\ \A l \in Locations :
                   (tasks[t].pc[l] = "writing" /\ tasks'[t].pc[l] = "done" /\ tasks'[t].wrote[l]) =>
                      LET K == KeysOfTask(tasks[t])
                          mine == KeysOfPort(files'[l].entries, tasks[t].c)
                      IN  /\ tasks[t].address
                          /\ K \subseteq mine
                          /\ mine \ KeysOfPort(Parsed(tasks[t].read[l]), tasks[t].c) \subseteq K
                          /\ K = {NoWorkspaceKey(tasks[t].c)} \/ (K # {} /\ K \subseteq Folders)]_vars

C38_Witness ==
    /\ Len(tasks) = 2
    /\ tasks[1].kind = "update" /\ tasks[2].kind = "update"
    /\ tasks[1].c = 2 /\ tasks[2].c = 2
    /\ ~tasks[1].address /\ tasks[2].address
    /\ tasks[2].keys = <<NoWorkspaceKey(2)>>
    /\ \A l \in Locations :
          /\ tasks[1].pc[l] = "done" /\ ~tasks[1].wrote[l]
          /\ tasks[2].wrote[l]
          /\ KeysOfPort(files[l].entries, 2) = {NoWorkspaceKey(2)}


\* C39: when an update of a Companion that registered before completes its
\* write of a registry file without an interleaved writer, the keys the file
\* maps to the Companion's port are exactly the keys of the update, its
\* current workspace folders.
C39_OnlyCurrentFolders ==
    [][\A t \in 1..Len(tasks), l \in Locations :
          (/\ WritesNow(t, l)
           /\ tasks[t].kind = "update"
           /\ \E u \in 1..(t - 1) :
                 /\ tasks[u].kind = "update"
                 /\ tasks[u].c = tasks[t].c
                 /\ \A m \in Locations : tasks[u].pc[m] = "done" /\ tasks[u].wrote[m])
          => KeysOfPort(files'[l].entries, tasks[t].c) = KeysOfTask(tasks[t])]_vars


\* C40: once a call for a path has failed to connect on the channel cached
\* for the path, a later call for the path, resolved by the registry to a
\* port, does not take a cached channel of another port: after a Companion
\* has moved to a new port and registered it, the calls for its workspace do
\* not all go to the old port.
C40_StaleChannelIsReplaced ==
    [][Len(calls') = Len(calls) + 1 =>
          LET new == calls'[Len(calls')]
              found == findExtensionPort(registry, cwd, new.path)
          IN  (/\ new.channel # 0
               /\ found # None
               /\ \E k \in 1..Len(calls) :
                     /\ calls[k].path = new.path
                     /\ calls[k].channel = new.channel
                     /\ calls[k].pc = "failed")
              => channels[new.channel].port = found[1]]_vars

====
